---- MODULE Spec2Model ----
(***************************************************************************)
(* Queens solver: grid-line detection (src/__main__.py), region grouping   *)
(* by flood fill and the backtracking solver (src/grid.py).                *)
(*                                                                         *)
(* Spec        the Grid: build, group_cells, then solve (possibly called   *)
(*             again on the same grid).                                    *)
(* SpecDetect  capture_and_analyze_grid: find_peaks on the row and the     *)
(*             column intensity profile, the line-count check, the grid    *)
(*             size and the cell sampling.                                 *)
(***************************************************************************)
EXTENDS Integers, Sequences, FiniteSets, TLC

VARIABLES
    \* ---- Grid (src/grid.py) ----
    rows, cols,      \* Grid.rows, Grid.cols
    color,           \* Cell.color of the cell at <<row, col>>
    groups,          \* Grid.groups: sequence of GridGroup records
    visited,         \* group_cells: visited
    stack,           \* dfs: stack
    group,           \* the GridGroup dfs is filling (read only while pc = "dfs")
    scan,            \* position of the row-major loop of group_cells
    pc,              \* where the Grid stands: "scan", "dfs", "built", "solve"
    \* ---- Grid.solve ----
    marked_cells, rows_used, cols_used,
    frames,          \* the active backtrack calls, outermost first
    ret,             \* value the innermost finished backtrack call returned
    retFrame,        \* history: the frame of that call (its entry state)
    clicked,         \* cells click_marked_cells has clicked in this solve
    outcome,         \* how the last solve ended
    solves,          \* number of solve invocations so far
    firstResult,     \* history: what the first solve produced
    \* ---- capture_and_analyze_grid (src/__main__.py) ----
    width, height,   \* grid_region's width and height
    dark_rows,       \* rows of the captured image that are dark all along
    dark_cols,       \* columns of the captured image that are dark all along
    axis,            \* the find_peaks call running or just returned
    lines, grouped_lines, current_group, li,   \* find_peaks locals (li: i)
    horizontal_lines, vertical_lines,
    grid_size, samples,
    dpc,             \* where capture_and_analyze_grid stands
    result           \* how the run of __main__ ended

gridVars   == <<rows, cols, color, groups, visited, stack, group, scan, pc>>
solveVars  == <<marked_cells, rows_used, cols_used, frames, ret, retFrame,
                clicked, outcome, solves, firstResult>>
detectVars == <<width, height, dark_rows, dark_cols, axis, lines, grouped_lines,
                current_group, li, horizontal_lines, vertical_lines,
                grid_size, samples, dpc, result>>
vars == <<gridVars, solveVars, detectVars>>

\* Python's None, where a cell or a list may stand.
None == <<>>

abs(x) == IF x < 0 THEN -x ELSE x

(***************************************************************************)
(* Bounds of the model.                                                    *)
(***************************************************************************)
NumColours == 5      \* colours of Palette a colour matrix may use
MaxSolves  == 2      \* solve invocations on one grid
MaxPos     == 4      \* grid lines of the image lie at positions 0..MaxPos

(***************************************************************************)
(* Inputs: colour matrices.  A matrix is a layout (which cells share a     *)
(* label) painted with one palette colour per label.                       *)
(***************************************************************************)
\* The first three colours form a chain: the first and the second, and the
\* second and the third, are at squared distance exactly 1000, the first
\* and the third at 4000.  The fourth and the fifth are far from all; the
\* sixth is at 1001 from the first.
Palette == << <<10, 20, 30>>, <<40, 30, 30>>, <<70, 40, 30>>,
              <<200, 100, 0>>, <<0, 150, 220>>, <<41, 26, 32>> >>

Layouts ==
    { << <<1, 1, 2, 2>>, <<1, 3, 3, 2>>, <<4, 3, 3, 4>>, <<4, 3, 3, 4>> >>,
      << <<1, 1, 1, 1>>, <<2, 2, 2, 2>>, <<3, 3, 3, 3>>, <<4, 4, 4, 4>> >>,
      << <<1, 1, 2, 2>>, <<1, 1, 2, 2>>, <<3, 3, 4, 4>>, <<3, 3, 4, 4>> >>,
      << <<1, 2, 1, 2>>, <<2, 1, 2, 1>>, <<1, 2, 1, 2>>, <<2, 1, 2, 1>> >>,
      << <<1, 2, 3, 4>>, <<1, 2, 3, 4>>, <<4, 2, 3, 1>>, <<4, 4, 1, 1>> >>,
      << <<1, 1, 2>>, <<3, 1, 2>>, <<3, 3, 2>> >>,
      << <<1, 2>>, <<3, 4>> >>,
      << <<1>> >> }

Labels == 1..4

\* The colour matrix `cells` handed to Grid(cells, region).
Matrix(layout, paint) ==
    [r \in 1..Len(layout) |->
        [c \in 1..Len(layout[1]) |-> Palette[paint[layout[r][c]]]]]

(***************************************************************************)
(* Grid.__init__ / Grid.build                                              *)
(***************************************************************************)
Coords(nr, nc) == (0..(nr - 1)) \X (0..(nc - 1))

\* get_cell without its lower bounds: a negative index counts from the end.
get_cell_wrap(row, col) ==
    IF -rows <= row /\ row < rows /\ -cols <= col /\ col < cols
    THEN <<row % rows, col % cols>> ELSE None

\* Grid.get_cell: the cell, or None outside the grid (no wrap-around).
get_cell(row, col) ==
    IF 0 <= row /\ row < rows /\ 0 <= col /\ col < cols
    THEN <<row, col>> ELSE None

\* Keeps the entries of a sequence that are cells (drops None).
RECURSIVE DropNone(_)
DropNone(s) ==
    IF s = <<>> THEN <<>>
    ELSE IF Head(s) = None THEN DropNone(Tail(s))
         ELSE <<Head(s)>> \o DropNone(Tail(s))

\* Cell.neighbors.values(): up, down, left, right, those that exist.
neighbors(cell) ==
    DropNone(<< get_cell(cell[1] - 1, cell[2]),
                get_cell(cell[1] + 1, cell[2]),
                get_cell(cell[1], cell[2] - 1),
                get_cell(cell[1], cell[2] + 1) >>)

color_similarity_threshold == 1000

\* group_cells.color_distance: squared Euclidean distance of two RGB colours.
color_distance(c1, c2) ==
      (c1[1] - c2[1]) * (c1[1] - c2[1])
    + (c1[2] - c2[2]) * (c1[2] - c2[2])
    + (c1[3] - c2[3]) * (c1[3] - c2[3])

\* The test of dfs with < in place of <=.
similarWeak(c1, c2) == color_distance(c1, c2) < color_similarity_threshold

\* The test of dfs that lets a neighbour onto the stack.
similar(c1, c2) == color_distance(c1, c2) <= color_similarity_threshold

\* GridGroup(color)
GridGroup(c) == [color |-> c, cells |-> <<>>, marked_cell |-> None]

\* GridGroup.add_cell
add_cell(g, cell) == [g EXCEPT !.cells = Append(@, cell)]

\* dfs without its test of visited.
never_visited(current) == FALSE

\* dfs: "if current in visited: continue".
popped_visited(current) == current \in visited

RECURSIVE PushSimilar(_, _, _)
\* The for loop of dfs over current.neighbors.values().
PushSimilar(st, current, ns) ==
    IF ns = <<>> THEN st
    ELSE LET n == Head(ns)
             st2 == IF n \notin (visited \cup {current})
                       /\ similar(color[current], color[n])
                    THEN Append(st, n) ELSE st
         IN  PushSimilar(st2, current, Tail(ns))

SolveIdle ==
    /\ marked_cells = {} /\ rows_used = {} /\ cols_used = {}
    /\ frames = <<>> /\ ret = "none" /\ retFrame = None
    /\ clicked = <<>>
    /\ outcome = "none" /\ solves = 0 /\ firstResult = None

DetectIdle ==
    /\ width = 0 /\ height = 0 /\ dark_rows = {} /\ dark_cols = {}
    /\ axis = "none" /\ lines = <<>> /\ grouped_lines = <<>>
    /\ current_group = <<>> /\ li = 0
    /\ horizontal_lines = <<>> /\ vertical_lines = <<>>
    /\ grid_size = 0 /\ samples = <<>> /\ dpc = "idle" /\ result = "none"

\* Grid(cells, region) up to the call of group_cells.
Init ==
    /\ \E layout \in Layouts, paint \in [Labels -> 1..NumColours] :
         LET m == Matrix(layout, paint) IN
         /\ rows = Len(m)
         /\ cols = IF Len(m) > 0 THEN Len(m[1]) ELSE 0
         /\ color = [p \in Coords(Len(m), Len(m[1])) |-> m[p[1] + 1][p[2] + 1]]
    /\ groups = <<>> /\ visited = {} /\ stack = <<>> /\ group = None
    /\ scan = 0 /\ pc = "scan"
    /\ SolveIdle
    /\ DetectIdle

(***************************************************************************)
(* Grid.group_cells                                                        *)
(***************************************************************************)
ScanCell == <<scan \div cols, scan % cols>>

\* The row-major loop meets a cell that is already visited.
ScanVisited ==
    /\ pc = "scan" /\ scan < rows * cols
    /\ ScanCell \in visited
    /\ scan' = scan + 1
    /\ UNCHANGED <<rows, cols, color, groups, visited, stack, group, pc>>
    /\ UNCHANGED <<solveVars, detectVars>>

\* The row-major loop meets an unvisited cell: a new group, dfs starts.
ScanStart ==
    /\ pc = "scan" /\ scan < rows * cols
    /\ ScanCell \notin visited
    /\ group' = GridGroup(color[ScanCell])
    /\ stack' = <<ScanCell>>
    /\ pc' = "dfs"
    /\ UNCHANGED <<rows, cols, color, groups, visited, scan>>
    /\ UNCHANGED <<solveVars, detectVars>>

\* One iteration of dfs's while loop on a cell popped twice.
DfsSkip ==
    /\ pc = "dfs" /\ stack # <<>>
    /\ popped_visited(stack[Len(stack)])
    /\ stack' = SubSeq(stack, 1, Len(stack) - 1)
    /\ UNCHANGED <<rows, cols, color, groups, visited, group, scan, pc>>
    /\ UNCHANGED <<solveVars, detectVars>>

\* One iteration of dfs's while loop on an unvisited cell.
DfsVisit ==
    /\ pc = "dfs" /\ stack # <<>>
    /\ LET current == stack[Len(stack)] IN
         /\ ~ popped_visited(current)
         /\ visited' = visited \cup {current}
         /\ group' = add_cell(group, current)
         /\ stack' = PushSimilar(SubSeq(stack, 1, Len(stack) - 1), current,
                                 neighbors(current))
    /\ UNCHANGED <<rows, cols, color, groups, scan, pc>>
    /\ UNCHANGED <<solveVars, detectVars>>

\* dfs returns: the group joins Grid.groups and the scan moves on.
DfsDone ==
    /\ pc = "dfs" /\ stack = <<>>
    /\ groups' = Append(groups, group)
    /\ group' = None
    /\ scan' = scan + 1
    /\ pc' = "scan"
    /\ UNCHANGED <<rows, cols, color, visited, stack>>
    /\ UNCHANGED <<solveVars, detectVars>>

\* group_cells returns; assign_groups only logs.
GroupDone ==
    /\ pc = "scan" /\ scan = rows * cols
    /\ pc' = "built"
    /\ UNCHANGED <<rows, cols, color, groups, visited, stack, group, scan>>
    /\ UNCHANGED <<solveVars, detectVars>>

(***************************************************************************)
(* Grid.solve                                                              *)
(***************************************************************************)
\* is_valid without the test of cols_used.
is_valid_no_col(cell) ==
    /\ ~ (cell[1] \in rows_used)
    /\ \A m \in marked_cells :
         ~ (abs(m[1] - cell[1]) <= 1 /\ abs(m[2] - cell[2]) <= 1)

\* solve.is_valid
is_valid(cell) ==
    /\ ~ (cell[1] \in rows_used \/ cell[2] \in cols_used)
    /\ \A m \in marked_cells :
         ~ (abs(m[1] - cell[1]) <= 1 /\ abs(m[2] - cell[2]) <= 1)

\* Each group's marked_cell, in group order.
Marked == [g \in 1..Len(groups) |-> groups[g].marked_cell]

\* The state the search works on.
SearchState ==
    [marked_cells |-> marked_cells, rows_used |-> rows_used,
     cols_used |-> cols_used, marked |-> Marked]

\* A call backtrack(group_index): k is the position of its for loop in
\* group.cells; history: entry, the search state when the call was made, and
\* marks, the number of cells the call has marked so far.
Frame(group_index, entry) ==
    [group_index |-> group_index, k |-> 1, entry |-> entry, marks |-> 0]

Top == frames[Len(frames)]
Pop(s) == SubSeq(s, 1, Len(s) - 1)

\* The reset loop of solve.
ResetMarked == [g \in 1..Len(groups) |-> [groups[g] EXCEPT !.marked_cell = None]]

\* solve(debug) is called (debug is read only once the search is over, and
\* is drawn there): fresh sets, every marked_cell reset, backtrack(0).
SolveCall ==
    /\ pc = "built" /\ solves < MaxSolves
    /\ marked_cells' = {} /\ rows_used' = {} /\ cols_used' = {}
    /\ groups' = ResetMarked
    /\ frames' = << Frame(0, [marked_cells |-> {}, rows_used |-> {},
                              cols_used |-> {},
                              marked |-> [g \in 1..Len(groups) |-> None]]) >>
    /\ ret' = "none" /\ retFrame' = None
    /\ clicked' = <<>>
    /\ outcome' = "running"
    /\ solves' = solves + 1
    /\ pc' = "solve"
    /\ UNCHANGED <<rows, cols, color, visited, stack, group, scan, firstResult>>
    /\ UNCHANGED detectVars

\* backtrack: group_index == len(self.groups), return True.
BacktrackAllDone ==
    /\ pc = "solve" /\ frames # <<>> /\ ret = "none"
    /\ Top.group_index = Len(groups)
    /\ ret' = "True" /\ retFrame' = Top
    /\ frames' = Pop(frames)
    /\ UNCHANGED <<marked_cells, rows_used, cols_used, clicked, outcome,
                   solves, firstResult>>
    /\ UNCHANGED <<gridVars, detectVars>>

\* The for loop taken from the last cell of the group to the first.
CandidateReversed ==
    LET cs == groups[Top.group_index + 1].cells IN cs[Len(cs) - Top.k + 1]

\* The cell the innermost call's for loop stands on.
Candidate == groups[Top.group_index + 1].cells[Top.k]

InLoop ==
    /\ pc = "solve" /\ frames # <<>> /\ ret = "none"
    /\ Top.group_index < Len(groups)
    /\ Top.k <= Len(groups[Top.group_index + 1].cells)

\* for cell in group.cells: is_valid(cell) is false, next cell.
BacktrackReject ==
    /\ InLoop
    /\ ~ is_valid(Candidate)
    /\ frames' = [frames EXCEPT ![Len(frames)].k = @ + 1]
    /\ UNCHANGED <<marked_cells, rows_used, cols_used, ret, retFrame,
                   clicked, outcome, solves, firstResult>>
    /\ UNCHANGED <<gridVars, detectVars>>

\* The cell is valid: mark it and call backtrack(group_index + 1).
BacktrackMark ==
    /\ InLoop
    /\ is_valid(Candidate)
    /\ LET cell == Candidate
           gi == Top.group_index + 1
           g2 == [groups EXCEPT ![gi].marked_cell = cell]
       IN  /\ marked_cells' = marked_cells \cup {cell}
           /\ rows_used' = rows_used \cup {cell[1]}
           /\ cols_used' = cols_used \cup {cell[2]}
           /\ groups' = g2
           /\ frames' = Append([frames EXCEPT ![Len(frames)].marks = @ + 1],
                  Frame(gi, [marked_cells |-> marked_cells \cup {cell},
                             rows_used |-> rows_used \cup {cell[1]},
                             cols_used |-> cols_used \cup {cell[2]},
                             marked |-> [g \in 1..Len(g2) |-> g2[g].marked_cell]]))
    /\ UNCHANGED <<ret, retFrame, clicked, outcome, solves, firstResult>>
    /\ UNCHANGED <<rows, cols, color, visited, stack, group, scan, pc>>
    /\ UNCHANGED detectVars

\* The unmarking without "group.marked_cell = None".
UnmarkKeepsGroup(cell, gi) ==
    /\ marked_cells' = marked_cells \ {cell}
    /\ rows_used' = rows_used \ {cell[1]}
    /\ cols_used' = cols_used \ {cell[2]}
    /\ groups' = groups

\* The unmarking of a cell after the recursive call failed.
Unmark(cell, gi) ==
    /\ marked_cells' = marked_cells \ {cell}
    /\ rows_used' = rows_used \ {cell[1]}
    /\ cols_used' = cols_used \ {cell[2]}
    /\ groups' = [groups EXCEPT ![gi].marked_cell = None]

\* The recursive call returned False: unmark the cell, next cell.
BacktrackUndo ==
    /\ pc = "solve" /\ frames # <<>> /\ ret = "False"
    /\ Unmark(Candidate, Top.group_index + 1)
    /\ frames' = [frames EXCEPT ![Len(frames)].k = @ + 1]
    /\ ret' = "none" /\ retFrame' = None
    /\ UNCHANGED <<clicked, outcome, solves, firstResult>>
    /\ UNCHANGED <<rows, cols, color, visited, stack, group, scan, pc>>
    /\ UNCHANGED detectVars

\* The recursive call returned True: return True.
BacktrackPassTrue ==
    /\ pc = "solve" /\ frames # <<>> /\ ret = "True"
    /\ retFrame' = Top
    /\ frames' = Pop(frames)
    /\ UNCHANGED <<marked_cells, rows_used, cols_used, ret, clicked,
                   outcome, solves, firstResult>>
    /\ UNCHANGED <<gridVars, detectVars>>

\* The for loop ran out of cells: return False.
BacktrackExhausted ==
    /\ pc = "solve" /\ frames # <<>> /\ ret = "none"
    /\ Top.group_index < Len(groups)
    /\ Top.k > Len(groups[Top.group_index + 1].cells)
    /\ ret' = "False" /\ retFrame' = Top
    /\ frames' = Pop(frames)
    /\ UNCHANGED <<marked_cells, rows_used, cols_used, clicked, outcome,
                   solves, firstResult>>
    /\ UNCHANGED <<gridVars, detectVars>>

\* What a finished solve leaves to its caller.
Result(o) == [outcome |-> o, marked |-> Marked]

\* backtrack(0) returned False: raise ValueError("No solution exists ...").
SolveRaise ==
    /\ pc = "solve" /\ frames = <<>> /\ ret = "False"
    /\ outcome' = "ValueError"
    /\ firstResult' = IF solves = 1 THEN Result("ValueError") ELSE firstResult
    /\ pc' = "built"
    /\ UNCHANGED <<marked_cells, rows_used, cols_used, frames, ret, retFrame,
                   clicked, solves>>
    /\ UNCHANGED <<rows, cols, color, groups, visited, stack, group, scan>>
    /\ UNCHANGED detectVars

RECURSIVE ClickAll(_)
\* click_marked_cells: one double click per group that has a marked cell.
ClickAll(gs) ==
    IF gs = <<>> THEN <<>>
    ELSE (IF Head(gs).marked_cell # None THEN <<Head(gs).marked_cell>> ELSE <<>>)
         \o ClickAll(Tail(gs))

\* backtrack(0) returned True: log, then click (or visualize in debug mode).
SolveFound ==
    /\ pc = "solve" /\ frames = <<>> /\ ret = "True"
    /\ outcome' = "solved"
    /\ \E debug \in BOOLEAN :
         clicked' = IF debug THEN <<>> ELSE ClickAll(groups)
    /\ firstResult' = IF solves = 1 THEN Result("solved") ELSE firstResult
    /\ pc' = "built"
    /\ UNCHANGED <<marked_cells, rows_used, cols_used, frames, ret, retFrame,
                   solves>>
    /\ UNCHANGED <<rows, cols, color, groups, visited, stack, group, scan>>
    /\ UNCHANGED detectVars

(***************************************************************************)
(* capture_and_analyze_grid and the try block of __main__                  *)
(*                                                                         *)
(* The captured image is light, with dark lines one pixel thick running    *)
(* the whole width at the rows dark_rows and the whole height at the       *)
(* columns dark_cols.  THRESH_BINARY_INV turns a dark pixel into 255 and a *)
(* light one into 0.                                                       *)
(***************************************************************************)
\* Side lengths of the captured region (detect_grid_region keeps w == h).
AxisLengths == {49, 50, 100, 149}

GridIdle ==
    /\ rows = 0 /\ cols = 0 /\ color = <<>> /\ groups = <<>> /\ visited = {}
    /\ stack = <<>> /\ group = None /\ scan = 0 /\ pc = "idle"

InitDetect ==
    /\ height \in AxisLengths /\ width = height
    /\ dark_rows \in SUBSET (0..MaxPos)
    /\ dark_cols \in SUBSET (0..MaxPos)
    /\ axis = "none" /\ lines = <<>> /\ grouped_lines = <<>>
    /\ current_group = <<>> /\ li = 0
    /\ horizontal_lines = <<>> /\ vertical_lines = <<>>
    /\ grid_size = 0 /\ samples = <<>> /\ dpc = "start" /\ result = "none"
    /\ GridIdle
    /\ SolveIdle

\* np.sum(binary_image, axis=1)[i]: 255 for each dark pixel of row i.
row_sum(i) == 255 * (IF i \in dark_rows THEN width ELSE Cardinality(dark_cols))

\* np.sum(binary_image, axis=0)[j]
col_sum(j) == 255 * (IF j \in dark_cols THEN height ELSE Cardinality(dark_rows))

sums_of(a, i) == IF a = "rows" THEN row_sum(i) ELSE col_sum(i)
axis_length(a) == IF a = "rows" THEN height ELSE width

RECURSIVE max_between(_, _, _)
\* np.max(sums), over the indices lo..hi (halving keeps the evaluation shallow)
max_between(a, lo, hi) ==
    IF lo = hi THEN sums_of(a, lo)
    ELSE LET mid == (lo + hi) \div 2
             l == max_between(a, lo, mid)
             r == max_between(a, mid + 1, hi)
         IN  IF r > l THEN r ELSE l

RECURSIVE surviving(_, _, _, _)
\* [i for i, value in enumerate(sums) if value > threshold], over the indices
\* lo..hi, with threshold = np.max(sums) * 0.5
surviving(a, mx, lo, hi) ==
    IF lo > hi THEN <<>>
    ELSE IF lo = hi THEN (IF 2 * sums_of(a, lo) > mx THEN <<lo>> ELSE <<>>)
    ELSE LET mid == (lo + hi) \div 2
         IN  surviving(a, mx, lo, mid) \o surviving(a, mx, mid + 1, hi)

find_lines(a) ==
    surviving(a, max_between(a, 0, axis_length(a) - 1), 0, axis_length(a) - 1)

RECURSIVE SumSeq(_)
SumSeq(s) == IF s = <<>> THEN 0 ELSE Head(s) + SumSeq(Tail(s))

\* The mean rounded to the nearest integer, a half going up.
round_mean(g) == (2 * SumSeq(g) + Len(g)) \div (2 * Len(g))

\* int(np.mean(current_group)): the mean, cut to an integer.
int_mean(g) == SumSeq(g) \div Len(g)

\* The grouping test of find_peaks, with < in place of <=.
near_strict(a, b, len) == b - a < len \div 50

\* lines[i] - lines[i - 1] <= axis_length // 50
near(a, b, len) == b - a <= len \div 50

\* except ValueError: the failures the try block of __main__ reports.
Reported(exc) == exc = "ValueError"

NextAxis == IF dpc = "start" THEN "rows" ELSE "cols"

\* find_peaks is called on a profile none of whose values exceeds the
\* threshold: lines is empty and lines[0] raises IndexError.
FindPeaksEmpty ==
    /\ dpc \in {"start", "rows_done"}
    /\ find_lines(NextAxis) = <<>>
    /\ axis' = NextAxis
    /\ lines' = <<>>
    /\ dpc' = "raised"
    /\ result' = "IndexError"
    /\ UNCHANGED <<width, height, dark_rows, dark_cols, grouped_lines,
                   current_group, li, horizontal_lines, vertical_lines,
                   grid_size, samples>>
    /\ UNCHANGED <<gridVars, solveVars>>

\* find_peaks is called and some index survives the threshold.
FindPeaksBegin ==
    /\ dpc \in {"start", "rows_done"}
    /\ find_lines(NextAxis) # <<>>
    /\ axis' = NextAxis
    /\ lines' = find_lines(NextAxis)
    /\ grouped_lines' = <<>>
    /\ current_group' = <<lines'[1]>>
    /\ li' = 1
    /\ dpc' = "loop"
    /\ UNCHANGED <<width, height, dark_rows, dark_cols, horizontal_lines,
                   vertical_lines, grid_size, samples, result>>
    /\ UNCHANGED <<gridVars, solveVars>>

\* The loop of find_peaks: lines[i] is near lines[i - 1] and joins the group.
FindPeaksJoin ==
    /\ dpc = "loop" /\ li < Len(lines)
    /\ near(lines[li], lines[li + 1], axis_length(axis))
    /\ current_group' = Append(current_group, lines[li + 1])
    /\ li' = li + 1
    /\ UNCHANGED <<width, height, dark_rows, dark_cols, axis, lines,
                   grouped_lines, horizontal_lines, vertical_lines, grid_size,
                   samples, dpc, result>>
    /\ UNCHANGED <<gridVars, solveVars>>

\* The loop of find_peaks: lines[i] is far, the group is closed.
FindPeaksSplit ==
    /\ dpc = "loop" /\ li < Len(lines)
    /\ ~ near(lines[li], lines[li + 1], axis_length(axis))
    /\ grouped_lines' = Append(grouped_lines, int_mean(current_group))
    /\ current_group' = <<lines[li + 1]>>
    /\ li' = li + 1
    /\ UNCHANGED <<width, height, dark_rows, dark_cols, axis, lines,
                   horizontal_lines, vertical_lines, grid_size, samples, dpc,
                   result>>
    /\ UNCHANGED <<gridVars, solveVars>>

\* The loop is over: the last group is closed and find_peaks returns.
FindPeaksReturn ==
    /\ dpc = "loop" /\ li = Len(lines)
    /\ LET out == Append(grouped_lines, int_mean(current_group)) IN
         /\ grouped_lines' = out
         /\ horizontal_lines' = IF axis = "rows" THEN out ELSE horizontal_lines
         /\ vertical_lines' = IF axis = "cols" THEN out ELSE vertical_lines
    /\ dpc' = IF axis = "rows" THEN "rows_done" ELSE "cols_done"
    /\ UNCHANGED <<width, height, dark_rows, dark_cols, axis, lines,
                   current_group, li, grid_size, samples, result>>
    /\ UNCHANGED <<gridVars, solveVars>>

\* len(horizontal_lines) != len(vertical_lines): raise ValueError.
CountMismatch ==
    /\ dpc = "cols_done"
    /\ Len(horizontal_lines) # Len(vertical_lines)
    /\ dpc' = "raised"
    /\ result' = "ValueError"
    /\ UNCHANGED <<width, height, dark_rows, dark_cols, axis, lines,
                   grouped_lines, current_group, li, horizontal_lines,
                   vertical_lines, grid_size, samples>>
    /\ UNCHANGED <<gridVars, solveVars>>

\* (center_y, center_x) of every cell, whose pixel is the cell's colour.
centers(n) ==
    LET cell_width == width \div n
        cell_height == height \div n
    IN  [row \in 1..n |-> [col \in 1..n |->
            << (row - 1) * cell_height + cell_height \div 2,
               (col - 1) * cell_width + cell_width \div 2 >>]]

\* The counts agree: the grid size, then the cell colours.  width //
\* grid_size raises ZeroDivisionError when there is a single line.
SampleCells ==
    /\ dpc = "cols_done"
    /\ Len(horizontal_lines) = Len(vertical_lines)
    /\ grid_size' = Len(horizontal_lines) - 1
    /\ IF Len(horizontal_lines) - 1 = 0
       THEN /\ result' = "ZeroDivisionError"
            /\ dpc' = "raised"
            /\ samples' = samples
       ELSE /\ result' = "cells"
            /\ dpc' = "returned"
            /\ samples' = centers(Len(horizontal_lines) - 1)
    /\ UNCHANGED <<width, height, dark_rows, dark_cols, axis, lines,
                   grouped_lines, current_group, li, horizontal_lines,
                   vertical_lines>>
    /\ UNCHANGED <<gridVars, solveVars>>

NextDetect ==
    \/ FindPeaksEmpty \/ FindPeaksBegin \/ FindPeaksJoin \/ FindPeaksSplit
    \/ FindPeaksReturn \/ CountMismatch \/ SampleCells

SpecDetect == InitDetect /\ [][NextDetect]_vars

Next ==
    \/ ScanVisited \/ ScanStart \/ DfsSkip \/ DfsVisit \/ DfsDone \/ GroupDone
    \/ SolveCall \/ BacktrackAllDone \/ BacktrackReject \/ BacktrackMark
    \/ BacktrackUndo \/ BacktrackPassTrue \/ BacktrackExhausted
    \/ SolveRaise \/ SolveFound

Spec == Init /\ [][Next]_vars

(***************************************************************************)
(* Properties of the Grid (checked under Spec)                             *)
(***************************************************************************)
Finished == outcome \in {"solved", "ValueError"}
\* group_cells has returned and no solve is running: the grid as its
\* callers see it, after build and after every solve.
Grouped  == pc = "built"
AllCells == Coords(rows, cols)
Members(g) == {groups[g].cells[i] : i \in 1..Len(groups[g].cells)}

KingAdjacent(a, b) == abs(a[1] - b[1]) <= 1 /\ abs(a[2] - b[2]) <= 1

\* Two assigned cells of distinct regions may stand together.
Compatible(a, b) == a[1] # b[1] /\ a[2] # b[2] /\ ~ KingAdjacent(a, b)

\* C1: whenever solve has returned success, every region's assigned cell is
\* one of its own member cells, and no two distinct regions' assigned cells
\* share a row, share a column or are king-adjacent.
C1_SolutionValid ==
    outcome = "solved" =>
        /\ \A g \in 1..Len(groups) : groups[g].marked_cell \in Members(g)
        /\ \A g, h \in 1..Len(groups) :
             g # h => Compatible(groups[g].marked_cell, groups[h].marked_cell)

\* A 4x4 grid of four regions solved after at least one undone choice.
C1_Witness ==
    /\ outcome = "solved" /\ rows = 4 /\ Len(groups) = 4
    /\ groups[1].marked_cell # groups[1].cells[1]

MarkedIn(S) == {g \in 1..Len(groups) : groups[g].marked_cell \in S}

\* C2: whenever solve has returned success on an N x N grid, every row and
\* every column holds exactly one assigned cell (so a grid whose number of
\* regions differs from N never ends in success).
C2_OnePerRowAndColumn ==
    outcome = "solved" =>
        /\ Len(groups) = rows
        /\ \A r \in 0..(rows - 1) :
             Cardinality(MarkedIn({p \in AllCells : p[1] = r})) = 1
        /\ \A c \in 0..(cols - 1) :
             Cardinality(MarkedIn({p \in AllCells : p[2] = c})) = 1

\* The regions of the 4x4 scenario, as labels per cell.
ScenarioLabel ==
    << <<1, 1, 2, 2>>, <<1, 3, 3, 2>>, <<4, 3, 3, 4>>, <<4, 3, 3, 4>> >>
LabelOf(p) == ScenarioLabel[p[1] + 1][p[2] + 1]

\* The colour matrix has exactly the scenario's four colour classes, and
\* colours of different classes are not similar.
ScenarioGrid ==
    /\ rows = 4 /\ cols = 4
    /\ \A p, q \in AllCells :
         IF LabelOf(p) = LabelOf(q) THEN color[p] = color[q]
         ELSE color_distance(color[p], color[q]) > 1000

\* C3 as stated: on the scenario grid, grouping and solve succeed with
\* R1 -> (1,0), R2 -> (0,2), R3 -> (3,1), R4 -> (2,3).
C3_ScenarioSolved ==
    (ScenarioGrid /\ Finished) =>
        /\ outcome = "solved"
        /\ Marked = << <<1, 0>>, <<0, 2>>, <<3, 1>>, <<2, 3>> >>

\* C3 amended: on the scenario grid, grouping yields five regions, R4
\* being split into {(2,0),(3,0)} and {(2,3),(3,3)} which touch nowhere,
\* and solve ends in the no-solution failure.
C3_ScenarioFiveRegionsUnsolvable ==
    (ScenarioGrid /\ Grouped) =>
        /\ Len(groups) = 5
        /\ Members(1) = {<<0, 0>>, <<0, 1>>, <<1, 0>>}
        /\ Members(2) = {<<0, 2>>, <<0, 3>>, <<1, 3>>}
        /\ Members(3) = {<<1, 1>>, <<1, 2>>, <<2, 1>>, <<2, 2>>, <<3, 1>>, <<3, 2>>}
        /\ Members(4) = {<<2, 0>>, <<3, 0>>}
        /\ Members(5) = {<<2, 3>>, <<3, 3>>}
        /\ Finished => outcome = "ValueError"

C3_Witness == ScenarioGrid /\ outcome = "ValueError"

\* C4: after group_cells, every cell of the grid appears in exactly one
\* region's member list, exactly once, and the member lists together hold
\* the full set of rows x cols cells.
C4_Partition ==
    Grouped =>
        /\ \A g \in 1..Len(groups) :
             \* no cell twice in one list
             /\ Cardinality(Members(g)) = Len(groups[g].cells)
             \* no cell in two lists
             /\ \A h \in (g + 1)..Len(groups) : Members(g) \cap Members(h) = {}
        /\ UNION {Members(g) : g \in 1..Len(groups)} = AllCells

\* A 4x4 grid grouped into two regions of more than four cells each.
C4_Witness ==
    /\ Grouped /\ rows = 4 /\ Len(groups) = 2
    /\ Len(groups[1].cells) > 4 /\ Len(groups[2].cells) > 4

RECURSIVE SatUpTo(_)
\* The assignments to the first n regions that satisfy all constraints, each
\* as the sequence of positions chosen in the regions' member lists.
SatUpTo(n) ==
    IF n = 0 THEN {<<>>}
    ELSE UNION { { Append(t, i) :
                     i \in { i \in 1..Len(groups[n].cells) :
                               \A j \in 1..(n - 1) :
                                 Compatible(groups[j].cells[t[j]],
                                            groups[n].cells[i]) } } :
                 t \in SatUpTo(n - 1) }

LexLeq(a, b) ==
    \/ a = b
    \/ \E k \in 1..Len(a) :
         /\ a[k] < b[k]
         /\ \A j \in 1..(k - 1) : a[j] = b[j]

CellsOf(t) == [g \in 1..Len(groups) |-> groups[g].cells[t[g]]]

\* C5: solve fails exactly when no satisfying assignment exists, otherwise
\* it returns the satisfying assignment that is lexicographically first by
\* region order and member order; a later solve of the same grid returns
\* what the first one returned, whatever marked cells that one left.
C5_FirstSolution ==
    Finished =>
        LET sat == SatUpTo(Len(groups)) IN
        /\ (outcome = "ValueError") <=> (sat = {})
        /\ outcome = "solved" =>
             \E t \in sat : /\ CellsOf(t) = Marked
                            /\ \A u \in sat : LexLeq(t, u)
        /\ solves > 1 => Result(outcome) = firstResult

\* A second solve of a grid with several satisfying assignments, begun
\* with the first solve's marked cells still in place.
C5_Witness ==
    /\ outcome = "solved" /\ solves = 2 /\ Len(groups) >= 3
    /\ firstResult.outcome = "solved"
    /\ Cardinality(SatUpTo(Len(groups))) >= 2

Adjacent4(p, q) == abs(p[1] - q[1]) + abs(p[2] - q[2]) = 1

\* The graph of C9: 4-adjacent cells whose own two colours are at squared
\* RGB distance at most 1000.
Linked(p, q) ==
    /\ Adjacent4(p, q)
    /\   (color[p][1] - color[q][1]) * (color[p][1] - color[q][1])
       + (color[p][2] - color[q][2]) * (color[p][2] - color[q][2])
       + (color[p][3] - color[q][3]) * (color[p][3] - color[q][3]) <= 1000

Around(p) ==
    {q \in {<<p[1] - 1, p[2]>>, <<p[1] + 1, p[2]>>,
            <<p[1], p[2] - 1>>, <<p[1], p[2] + 1>>} : q \in AllCells}

RECURSIVE Reach(_, _)
\* The cells a path of links reaches from the cells of S (F: those just added).
Reach(S, F) ==
    LET new == UNION {{q \in Around(p) : Linked(p, q)} : p \in F} \ S
    IN  IF new = {} THEN S ELSE Reach(S \cup new, new)

Component(p) == Reach({p}, {p})

\* C9: after group_cells the regions are exactly the connected components
\* of that graph: linked cells are in the same region, whatever their
\* distance to the region's seed colour, and every region is connected.
C9_RegionsAreComponents ==
    Grouped =>
        \A g \in 1..Len(groups) :
            LET M == Members(g) IN
            \* connected, and closed under links
            /\ M = Component(groups[g].cells[1])
            /\ \A p \in M : \A q \in Around(p) : Linked(p, q) => q \in M

\* A region holding a cell farther than 1000 from the region's seed colour.
C9_Witness ==
    /\ Grouped
    /\ \E g \in 1..Len(groups) : \E p \in Members(g) :
         color_distance(groups[g].color, color[p]) > 1000

\* C10: whenever a backtrack call has returned failure, rows_used,
\* cols_used, the marked cells and every region's marked_cell are as they
\* were when the call was entered; when solve fails, every region is left
\* unmarked and nothing has been clicked.
C10_FailureRestores ==
    /\ ret = "False" => SearchState = retFrame.entry
    /\ outcome = "ValueError" =>
         /\ \A g \in 1..Len(groups) : groups[g].marked_cell = None
         /\ clicked = <<>>

\* A failed inner call that had marked cells and undone them.
C10_Witness ==
    /\ ret = "False" /\ retFrame.group_index > 0 /\ retFrame.marks > 0

(***************************************************************************)
(* Properties of the grid-line detection (checked under SpecDetect)        *)
(***************************************************************************)
\* C6: when no index of the profile handed to find_peaks exceeds half the
\* profile's maximum, the run ends in the failure the top-level caller
\* reports, and in no other outcome.
C6_GridNotDetected ==
    (axis # "none" /\ find_lines(axis) = <<>> /\ result # "none")
        => Reported(result)

BothCounted == axis = "cols" /\ vertical_lines # <<>>

\* C7: when the horizontal or the vertical line count is below 5, the run
\* ends in a reported failure: no grid size is derived, no cell colour is
\* sampled, no colour matrix is returned.
C7_InsufficientLines ==
    (BothCounted /\ result # "none"
       /\ (Len(horizontal_lines) < 5 \/ Len(vertical_lines) < 5))
        => (Reported(result) /\ samples = <<>>)

\* The gap after lines[i] is more than axis_length / 50.
Far(i) == 50 * (lines[i + 1] - lines[i]) > axis_length(axis)

\* The positions in lines where a maximal run of near indices starts.
RunStarts == {1} \cup {i + 1 : i \in {j \in 1..(Len(lines) - 1) : Far(j)}}

RunEnd(s) ==
    IF \E t \in RunStarts : t > s
    THEN (CHOOSE t \in RunStarts :
            t > s /\ \A u \in RunStarts : u > s => t <= u) - 1
    ELSE Len(lines)

JustReturned == dpc \in {"rows_done", "cols_done"}

\* C8: find_peaks returns exactly one line per maximal run of surviving
\* indices whose consecutive gaps are all at most axis_length / 50: the
\* k-th line lies within the k-th run.
C8_OneLinePerRun ==
    JustReturned =>
        /\ Len(grouped_lines) = Cardinality(RunStarts)
        /\ \A s \in RunStarts :
             LET k == Cardinality({t \in RunStarts : t <= s}) IN
             /\ lines[s] <= grouped_lines[k]
             /\ grouped_lines[k] <= lines[RunEnd(s)]

\* A profile with a gap of exactly axis_length / 50 inside a run and a gap
\* of one more between two runs.
C8_Witness ==
    /\ JustReturned /\ axis_length(axis) >= 50
    /\ \E i \in 1..(Len(lines) - 1) :
         lines[i + 1] - lines[i] = axis_length(axis) \div 50
    /\ \E i \in 1..(Len(lines) - 1) :
         lines[i + 1] - lines[i] = axis_length(axis) \div 50 + 1
    /\ Len(grouped_lines) = 2

\* The k-th cluster find_peaks formed: the run of lines that starts at s.
Cluster(s) == SubSeq(lines, s, RunEnd(s))
RunIndex(s) == Cardinality({t \in RunStarts : t <= s})

\* C11 as stated: every returned line is the integer nearest to the mean of
\* its cluster (a mean of exactly one half more may go either way).
C11_RoundedMean ==
    JustReturned =>
        \A s \in RunStarts :
            LET n == Len(Cluster(s))
                d == 2 * SumSeq(Cluster(s)) - 2 * n * grouped_lines[RunIndex(s)]
            IN  -n <= d /\ d <= n

\* C11 amended: every returned line is the mean of its cluster cut down to
\* an integer, also when the mean's fractional part is one half or more.
C11_TruncatedMean ==
    JustReturned =>
        \A s \in RunStarts :
            LET n == Len(Cluster(s))
                g == grouped_lines[RunIndex(s)]
            IN  /\ n * g <= SumSeq(Cluster(s))
                /\ SumSeq(Cluster(s)) < n * (g + 1)

\* A returned cluster whose mean has a fractional part above one half.
C11_Witness ==
    /\ JustReturned
    /\ \E s \in RunStarts :
         2 * (SumSeq(Cluster(s)) % Len(Cluster(s))) > Len(Cluster(s))
====
